---- MODULE Spec2Model ----
(***************************************************************************)
(* Model of hopalong.py: the recurrence hop_along_eq, the batch generator  *)
(* hop_along_for_n, the parameter randomizer random_abc and the frame loop *)
(* of plot_hop_along.                                                      *)
(*                                                                         *)
(* Floats.  A float64 is modelled in sign-magnitude form, as IEEE 754      *)
(* stores it: [s |-> sign bit, m |-> magnitude].  Magnitudes are points of *)
(* the integer grid, so +0.0 is [s |-> 0, m |-> 0] and -0.0 is             *)
(* [s |-> 1, m |-> 0]; results that do not fall on the grid (sqrt, scaling *)
(* by a random sample) are rounded to the nearest grid point, as the       *)
(* hardware rounds to the nearest double.                                  *)
(***************************************************************************)
EXTENDS Integers, Sequences, FiniteSets

VARIABLES
    pc,          \* position of plot_hop_along's loop ("idle" when it is not running)
    err,         \* the exception that ended the loop ("" while none)
    a, b, c,     \* hop along parameters of the loop
    n_iters,     \* iterations per frame
    n_hist,      \* frames a batch stays on screen
    n_reset,     \* frames between parameter resets
    alpha_init,  \* opacity of a new batch, a rational <<num, den>>
    history,     \* list of the previous batches (each of shape (2, n_iters))
    values,      \* latest batch, shape (2, n)
    full_iters,  \* completed frames
    drawn,       \* scatter calls on the figure since the last clf
    frame,       \* history variable: number of the frame begun last
    seed,        \* history variable: xy_init passed to the last hop_along_for_n
    batch,       \* history variable: array returned by the last hop_along_for_n
    did_reset,   \* history variable: the reset branch ran at the end of the last frame
    n_resets,    \* history variable: number of resets so far
    abc0,        \* history variable: the parameters plot_hop_along was called with
    events,      \* history variable: the steps of the current frame, in order
    history_gen, \* history variable: for each entry of history, the frame and the
                 \* parameters it was generated in
    prev_alpha,  \* history variable: frame of origin and opacity of each scatter call
                 \* of the previous frame
    trajectory,  \* history variable: the batches since the start or the last reset,
                 \* concatenated
    since_reset, \* history variable: batches generated since the start or the last reset
    call,        \* a direct call of one of the module's functions
    ret          \* what the direct call returned

vars == <<pc, err, a, b, c, n_iters, n_hist, n_reset, alpha_init, history, values,
          full_iters, drawn, frame, seed, batch, did_reset, n_resets, abc0, events,
          history_gen, prev_alpha, trajectory, since_reset, call, ret>>

loopvars == <<pc, err, a, b, c, n_iters, n_hist, n_reset, alpha_init, history, values,
              full_iters, drawn, frame, seed, batch, did_reset, n_resets, abc0,
              events, history_gen, prev_alpha, trajectory, since_reset>>

(***************************************************************************)
(* Bounds of the model.                                                    *)
(***************************************************************************)
MaxIters == 2
MaxHist == 2
MaxReset == 2
MaxFrames == 4
MaxCoord == 2
MaxParam == 1
RandDen == 4

(***************************************************************************)
(* Float arithmetic.                                                       *)
(***************************************************************************)
PosZero == [s |-> 0, m |-> 0]
NegZero == [s |-> 1, m |-> 0]

\* The float of an integer literal (0 is +0.0).
F(i) == IF i < 0 THEN [s |-> 1, m |-> -i] ELSE [s |-> 0, m |-> i]

\* The real number a float stands for (both zeros stand for 0).
val(x) == IF x.s = 1 THEN -x.m ELSE x.m

fneg(x) == [s |-> 1 - x.s, m |-> x.m]

\* x + y: a zero sum is -0.0 only when both operands are -0.0.
fadd(x, y) ==
    LET v == val(x) + val(y)
    IN  IF v # 0 THEN F(v)
        ELSE IF x = NegZero /\ y = NegZero THEN NegZero ELSE PosZero

fsub(x, y) == fadd(x, fneg(y))

\* x * y: the sign is the exclusive or of the signs, also for zeros.
fmul(x, y) == [s |-> (x.s + y.s) % 2, m |-> x.m * y.m]

np_abs(x) == [s |-> 0, m |-> x.m]

np_copysign(x, y) == [s |-> y.s, m |-> x.m]

\* Nearest grid point to the square root of the natural number n.
RoundSqrt(n) ==
    LET r == CHOOSE k \in 0..n : k * k <= n /\ (k + 1) * (k + 1) > n
    IN  IF n - r * r > r THEN r + 1 ELSE r

\* np.sqrt of a float with a clear sign bit (it is only applied to np.abs).
np_sqrt(x) == [s |-> x.s, m |-> RoundSqrt(x.m)]

\* Nearest grid point to the rational n / d, d > 0 (ties away from zero).
RoundDiv(n, d) ==
    IF n >= 0 THEN (2 * n + d) \div (2 * d) ELSE -((2 * (-n) + d) \div (2 * d))

(***************************************************************************)
(* hop_along_eq: one iteration.  Points are pairs <<x, y>>.                *)
(***************************************************************************)
hop_along_eq(xy, pa, pb, pc_) ==
    LET sqrt_x == np_sqrt(np_abs(fsub(fmul(pb, xy[1]), pc_)))
        f_x    == fneg(np_copysign(sqrt_x, xy[1]))
        new_x  == fadd(xy[2], f_x)
        new_y  == fsub(pa, xy[1])
    IN  <<new_x, new_y>>

(***************************************************************************)
(* hop_along_for_n.  An (n, 2) array is a sequence of n points; None is    *)
(* the empty tuple.  The result records the exception raised ("" when      *)
(* none), the returned array, and the contents of the caller's xy_init     *)
(* array when the call ends.                                               *)
(***************************************************************************)
None == <<>>

ZeroPoint == <<PosZero, PosZero>>

\* np.zeros((n, 2)), n >= 0
np_zeros(n) == [i \in 1..n |-> ZeroPoint]

RECURSIVE for_index_stores_input(_, _, _, _, _, _, _)
for_index_stores_input(r, xy, index, n, pa, pb, pc_) ==
    IF index >= n THEN r
    ELSE for_index_stores_input([r EXCEPT ![index + 1] = xy],
                                hop_along_eq(xy, pa, pb, pc_), index + 1, n, pa, pb, pc_)

\* The body of `for index in range(n)` from `index` on (lines 89-92); TLA+
\* sequences count from 1, so ret[index, :] is ret[index + 1].
RECURSIVE for_index(_, _, _, _, _, _, _)
for_index(r, xy, index, n, pa, pb, pc_) ==
    IF index >= n THEN r
    ELSE LET nxt == hop_along_eq(xy, pa, pb, pc_)
         IN  for_index([r EXCEPT ![index + 1] = nxt], nxt, index + 1, n, pa, pb, pc_)

hop_along_for_n_clamps(pa, pb, pc_, n, xy_init) ==
    LET m  == IF n < 0 THEN 0 ELSE n
        xy == IF xy_init = None THEN ZeroPoint ELSE xy_init
    IN  [err |-> "", ret |-> for_index(np_zeros(m), xy, 0, m, pa, pb, pc_),
         xy_init |-> xy_init]

\* np.zeros raises ValueError for a negative dimension.
hop_along_for_n(pa, pb, pc_, n, xy_init) ==
    IF n < 0
    THEN [err |-> "ValueError", ret |-> <<>>, xy_init |-> xy_init]
    ELSE LET xy == IF xy_init = None THEN ZeroPoint ELSE xy_init
         IN  [err |-> "",
              ret |-> for_index(np_zeros(n), xy, 0, n, pa, pb, pc_),
              xy_init |-> xy_init]

(***************************************************************************)
(* random_abc.  np.random.uniform(low, high) is low + (high - low) * u for *)
(* a sample u of [0, 1); the model's samples are 0 and (RandDen-1)/RandDen.*)
(* Nothing compares low with high.                                         *)
(***************************************************************************)
default_min_val == -10
default_max_val == 10

random_sample == {0, RandDen - 1}

np_random_uniform_from_high(low, high) ==
    { fadd(high, F(RoundDiv(val(fsub(high, low)) * k, RandDen))) : k \in random_sample }

np_random_uniform(low, high) ==
    { fadd(low, F(RoundDiv(val(fsub(high, low)) * k, RandDen))) : k \in random_sample }

random_abc(min_val, max_val) ==
    LET U == np_random_uniform(min_val, max_val)
    IN  [err |-> "", abc |-> U \X U \X U]

(***************************************************************************)
(* numpy and list operations used by plot_hop_along.  A (2, n) array is a  *)
(* pair <<xs, ys>> of sequences of length n.                               *)
(***************************************************************************)
\* np.array([[0.0, 0.0]]), shape (1, 2)
zero_row == <<ZeroPoint>>

\* np.swapaxes(arr, 0, 1) of an (n, 2) array
np_swapaxes(arr) ==
    << [i \in 1..Len(arr) |-> arr[i][1]], [i \in 1..Len(arr) |-> arr[i][2]] >>

\* whether v[:, -1] raises IndexError: axis 1 of v has size 0
last_column_fails(v) == Len(v[1]) = 0

first_column(v) == << v[1][1], v[2][1] >>

\* v[:, -1] of a (2, n) array, n >= 1
last_column(v) == << v[1][Len(v[1])], v[2][Len(v[2])] >>

\* list(range(0, n))
range_list(n) == [i \in 1..n |-> i - 1]

\* lst[start:] as Python slices: a negative start counts from the end, and
\* the start is clipped to the list.
py_slice_from(lst, start) ==
    LET k == IF start < 0
             THEN (IF Len(lst) + start < 0 THEN 0 ELSE Len(lst) + start)
             ELSE (IF start > Len(lst) THEN Len(lst) ELSE start)
    IN  SubSeq(lst, k + 1, Len(lst))

trim_keeps_all(lst, n) == lst

trim_off_by_one(lst, n) == py_slice_from(lst, 1 - n)

trim_keeps_oldest(lst, n) == SubSeq(lst, 1, IF Len(lst) < n THEN Len(lst) ELSE n)

\* history[-n_hist:]
trim(lst, n) == py_slice_from(lst, -n)

history_alpha_reversed(index, n, alpha) == << (n - index) * alpha[1], n * alpha[2] >>

history_alpha_one_based(index, n, alpha) == << (index + 2) * alpha[1], n * alpha[2] >>

\* (index + 1) / n_hist * alpha_init, as a rational <<num, den>>
history_alpha(index, n, alpha) == << (index + 1) * alpha[1], n * alpha[2] >>

positive_reset == n_reset > 0

positive_hist_or_zero == n_hist >= 0

positive_hist == n_hist > 0

\* positive_reset and (full_iters % n_reset == 0), with the counter at `full`
reset_before_count(full) == positive_reset /\ (full - 1) % n_reset = 0

reset_unguarded(full) == n_reset = 0 \/ (n_reset > 0 /\ full % n_reset = 0)

reset_now(full) == positive_reset /\ full % n_reset = 0

(***************************************************************************)
(* plot_hop_along, started with each configuration of the bounds.          *)
(***************************************************************************)
Floats(k) == { [s |-> sg, m |-> mg] : sg \in {0, 1}, mg \in 0..k }

LoopParams == { <<F(1), F(1), F(0)>>, <<F(-MaxParam), F(MaxParam), F(1)>> }

default_alpha_init == <<3, 10>>

\* The values of alpha_init the loop is started with: the default and 0.
AlphaInits == { default_alpha_init, <<0, 1>> }

NoCall == [fn |-> "none", xy |-> None, a |-> PosZero, b |-> PosZero, c |-> PosZero,
           n |-> 0, lo |-> PosZero, hi |-> PosZero]

NoRet == [done |-> FALSE, err |-> "", pt |-> ZeroPoint, arr |-> <<>>,
          xy_after |-> None, abc |-> <<PosZero, PosZero, PosZero>>]

\* The arguments of plot_hop_along, which the loop never assigns (n_iters,
\* n_hist, n_reset, alpha_init), and their record abc0.
config == <<n_iters, n_hist, n_reset, alpha_init, abc0>>

\* The statement order of the loop body: the position after position p.
next_pc_clear_before_pause(p) ==
    CASE p = "generate"     -> "scatter"
      [] p = "scatter"      -> IF positive_hist THEN "draw_history" ELSE "count"
      [] p = "draw_history" -> "append"
      [] p = "append"       -> "count"
      [] p = "count"        -> "clf"
      [] p = "clf"          -> "pause"
      [] p = "pause"        -> "generate"

next_pc(p) ==
    CASE p = "generate"     -> "scatter"
      [] p = "scatter"      -> IF positive_hist THEN "draw_history" ELSE "pause"
      [] p = "draw_history" -> "append"
      [] p = "append"       -> "pause"
      [] p = "pause"        -> "clf"
      [] p = "clf"          -> "count"
      [] p = "count"        -> "generate"

InitLoop ==
    /\ pc = "generate"
    /\ err = ""
    /\ \E p \in LoopParams : a = p[1] /\ b = p[2] /\ c = p[3] /\ abc0 = p
    /\ n_iters \in -1..MaxIters
    /\ n_hist \in -1..MaxHist
    /\ n_reset \in -1..MaxReset
    /\ alpha_init \in AlphaInits
    /\ history = <<>>
    /\ values = np_swapaxes(zero_row)
    /\ full_iters = 0
    /\ drawn = <<>>
    /\ frame = 0
    /\ seed = None
    /\ batch = <<>>
    /\ did_reset = FALSE
    /\ n_resets = 0
    /\ events = <<>>
    /\ history_gen = <<>>
    /\ prev_alpha = <<>>
    /\ trajectory = <<>>
    /\ since_reset = 0
    /\ call = NoCall
    /\ ret = NoRet

\* Line 171: values[:, -1] is evaluated first, then hop_along_for_n is called.
Generate ==
    /\ pc = "generate"
    /\ frame < MaxFrames
    /\ frame' = frame + 1
    /\ events' = <<"generate">>
    /\ IF last_column_fails(values)
       THEN /\ pc' = "error"
            /\ err' = "IndexError"
            /\ UNCHANGED <<values, seed, batch, trajectory, since_reset>>
       ELSE LET r == hop_along_for_n(a, b, c, n_iters, last_column(values))
            IN  IF r.err # ""
                THEN /\ pc' = "error"
                     /\ err' = r.err
                     /\ UNCHANGED <<values, seed, batch, trajectory, since_reset>>
                ELSE /\ pc' = next_pc(pc)
                     /\ values' = np_swapaxes(r.ret)
                     /\ seed' = last_column(values)
                     /\ batch' = r.ret
                     /\ trajectory' = trajectory \o r.ret
                     /\ since_reset' = since_reset + 1
                     /\ err' = err
    /\ UNCHANGED <<a, b, c, config, history, full_iters, drawn, did_reset, n_resets,
                   history_gen, prev_alpha, call, ret>>

\* Lines 173-180: the new batch.
ScatterNew ==
    /\ pc = "scatter"
    /\ drawn' = Append(drawn, [x |-> values[1], y |-> values[2],
                               c |-> range_list(n_iters), alpha |-> alpha_init,
                               gen |-> [frame |-> frame, abc |-> <<a, b, c>>]])
    /\ events' = Append(events, "render_new")
    /\ pc' = next_pc(pc)
    /\ UNCHANGED <<err, a, b, c, config, history, values, full_iters, frame, seed, batch,
                   did_reset, n_resets, history_gen, prev_alpha, trajectory, since_reset,
                   call, ret>>

\* Lines 183-192: the previous batches, oldest first.
DrawHistory ==
    /\ pc = "draw_history"
    /\ drawn' = drawn \o [i \in 1..Len(history) |->
                            [x |-> history[i][1], y |-> history[i][2],
                             c |-> range_list(n_iters),
                             alpha |-> history_alpha(i - 1, n_hist, alpha_init),
                             gen |-> history_gen[i]]]
    /\ events' = Append(events, "render_history")
    /\ pc' = next_pc(pc)
    /\ UNCHANGED <<err, a, b, c, config, history, values, full_iters, frame, seed, batch,
                   did_reset, n_resets, history_gen, prev_alpha, trajectory, since_reset,
                   call, ret>>

\* Lines 194-195.
AppendTrim ==
    /\ pc = "append"
    /\ history' = trim(Append(history, values), n_hist)
    /\ history_gen' = trim(Append(history_gen, [frame |-> frame, abc |-> <<a, b, c>>]),
                           n_hist)
    /\ events' = Append(events, "trim")
    /\ pc' = next_pc(pc)
    /\ UNCHANGED <<err, a, b, c, config, values, drawn, full_iters, frame, seed, batch,
                   did_reset, n_resets, prev_alpha, trajectory, since_reset, call, ret>>

\* Lines 197-199: the ticks are removed and the figure is shown for pause_time.
Pause ==
    /\ pc = "pause"
    /\ events' = Append(events, "sleep")
    /\ pc' = next_pc(pc)
    /\ UNCHANGED <<err, a, b, c, config, history, values, drawn, full_iters, frame, seed,
                   batch, did_reset, n_resets, history_gen, prev_alpha, trajectory,
                   since_reset, call, ret>>

\* Line 200.
Clf ==
    /\ pc = "clf"
    /\ drawn' = <<>>
    /\ prev_alpha' = [i \in 1..Len(drawn) |->
                        [frame |-> drawn[i].gen.frame, alpha |-> drawn[i].alpha]]
    /\ events' = Append(events, "clear")
    /\ pc' = next_pc(pc)
    /\ UNCHANGED <<err, a, b, c, config, history, values, full_iters, frame, seed, batch,
                   did_reset, n_resets, history_gen, trajectory, since_reset, call, ret>>

CountReset_clears_history ==
    /\ pc = "count"
    /\ full_iters' = full_iters + 1
    /\ IF reset_now(full_iters + 1)
       THEN /\ values' = np_swapaxes(zero_row)
            /\ \E p \in random_abc(F(default_min_val), F(default_max_val)).abc :
                   a' = p[1] /\ b' = p[2] /\ c' = p[3]
            /\ did_reset' = TRUE
            /\ n_resets' = n_resets + 1
            /\ trajectory' = <<>>
            /\ since_reset' = 0
            /\ history' = <<>>
            /\ history_gen' = <<>>
       ELSE /\ UNCHANGED <<values, a, b, c, n_resets, trajectory, since_reset, history,
                           history_gen>>
            /\ did_reset' = FALSE
    /\ events' = Append(events, "reset")
    /\ pc' = next_pc(pc)
    /\ UNCHANGED <<err, config, drawn, frame, seed, batch, prev_alpha, call, ret>>

\* Lines 202-206.
CountReset ==
    /\ pc = "count"
    /\ full_iters' = full_iters + 1
    /\ IF reset_now(full_iters + 1)
       THEN /\ values' = np_swapaxes(zero_row)
            /\ \E p \in random_abc(F(default_min_val), F(default_max_val)).abc :
                   a' = p[1] /\ b' = p[2] /\ c' = p[3]
            /\ did_reset' = TRUE
            /\ n_resets' = n_resets + 1
            /\ trajectory' = <<>>
            /\ since_reset' = 0
       ELSE /\ UNCHANGED <<values, a, b, c, n_resets, trajectory, since_reset>>
            /\ did_reset' = FALSE
    /\ events' = Append(events, "reset")
    /\ pc' = next_pc(pc)
    /\ UNCHANGED <<err, config, history, drawn, frame, seed, batch, history_gen,
                   prev_alpha, call, ret>>

(***************************************************************************)
(* Direct calls of the three functions, with each input of the bounds.     *)
(***************************************************************************)
Points == Floats(MaxCoord) \X Floats(MaxCoord)

IntFloats(k) == { F(i) : i \in -k..k }

InitCall ==
    /\ pc = "idle"
    /\ err = ""
    /\ a = PosZero /\ b = PosZero /\ c = PosZero
    /\ abc0 = <<PosZero, PosZero, PosZero>>
    /\ n_iters = 0 /\ n_hist = 0 /\ n_reset = 0
    /\ alpha_init = default_alpha_init
    /\ history = <<>>
    /\ values = np_swapaxes(zero_row)
    /\ full_iters = 0
    /\ drawn = <<>>
    /\ frame = 0
    /\ seed = None
    /\ batch = <<>>
    /\ did_reset = FALSE
    /\ n_resets = 0
    /\ events = <<>>
    /\ history_gen = <<>>
    /\ prev_alpha = <<>>
    /\ trajectory = <<>>
    /\ since_reset = 0
    /\ ret = NoRet
    /\ \/ \E xy \in Points, pa, pb, pc_ \in Floats(MaxParam) :
             call = [NoCall EXCEPT !.fn = "hop_along_eq", !.xy = xy,
                                   !.a = pa, !.b = pb, !.c = pc_]
       \/ \E xy \in Points \cup {None}, pa, pb, pc_ \in IntFloats(MaxParam),
             n \in -1..MaxIters :
             call = [NoCall EXCEPT !.fn = "hop_along_for_n", !.xy = xy,
                                   !.a = pa, !.b = pb, !.c = pc_, !.n = n]
       \/ \E lo, hi \in IntFloats(MaxCoord) \cup {F(default_min_val), F(default_max_val)} :
             call = [NoCall EXCEPT !.fn = "random_abc", !.lo = lo, !.hi = hi]

Call_hop_along_eq ==
    /\ call.fn = "hop_along_eq"
    /\ ~ret.done
    /\ ret' = [NoRet EXCEPT !.done = TRUE,
                            !.pt = hop_along_eq(call.xy, call.a, call.b, call.c)]
    /\ UNCHANGED <<loopvars, call>>

Call_hop_along_for_n ==
    /\ call.fn = "hop_along_for_n"
    /\ ~ret.done
    /\ LET r == hop_along_for_n(call.a, call.b, call.c, call.n, call.xy)
       IN  ret' = [NoRet EXCEPT !.done = TRUE, !.err = r.err, !.arr = r.ret,
                                !.xy_after = r.xy_init]
    /\ UNCHANGED <<loopvars, call>>

Call_random_abc ==
    /\ call.fn = "random_abc"
    /\ ~ret.done
    /\ LET r == random_abc(call.lo, call.hi)
       IN  IF r.err # ""
           THEN ret' = [NoRet EXCEPT !.done = TRUE, !.err = r.err]
           ELSE \E p \in r.abc : ret' = [NoRet EXCEPT !.done = TRUE, !.abc = p]
    /\ UNCHANGED <<loopvars, call>>

Init == InitLoop \/ InitCall

Next ==
    \/ Generate
    \/ ScatterNew
    \/ DrawHistory
    \/ AppendTrim
    \/ Pause
    \/ Clf
    \/ CountReset
    \/ Call_hop_along_eq
    \/ Call_hop_along_for_n
    \/ Call_random_abc

Spec == Init /\ [][Next]_vars

(***************************************************************************)
(* Properties.                                                             *)
(***************************************************************************)
Running == pc # "idle"

RECURSIVE iterate(_, _, _, _, _)
\* hop_along_eq applied k times to xy
iterate(k, xy, pa, pb, pc_) ==
    IF k = 0 THEN xy ELSE hop_along_eq(iterate(k - 1, xy, pa, pb, pc_), pa, pb, pc_)

abs(i) == IF i < 0 THEN -i ELSE i

\* C1: for n_hist >= 0 the history list never holds more than n_hist batches,
\* in any frame, the append-and-trim step being one step of the loop.
C1_HistoryBounded == (Running /\ n_hist >= 0) => Len(history) <= n_hist

C1_Witness == n_hist = 1 /\ frame >= 3 /\ pc = "pause" /\ Len(history) = 1

\* C2: whenever a frame generates its batch, the seed it passes to
\* hop_along_for_n is (0,0) in the first frame and after a reset at the end
\* of the previous frame, and otherwise the last point of the array the
\* previous frame's hop_along_for_n returned.
C2_SeedContinuity ==
    [][ (pc = "generate" /\ pc' = "scatter") =>
            seed' = IF frame = 0 \/ did_reset THEN ZeroPoint ELSE batch[Len(batch)] ]_vars

C2_Witness ==
    pc = "scatter" /\ frame >= 2 /\ ~did_reset /\ n_iters = 2 /\ seed # ZeroPoint

\* C3: with n_reset = k > 0, at the start of every frame the number of resets
\* so far is the number of positive multiples of k among the completed
\* frames, a reset ended the last frame exactly when their count is such a
\* multiple, and right after a reset the seed is (0,0) and (a,b,c) is a
\* draw of random_abc().
C3_ResetEveryK ==
    (pc = "generate" /\ n_reset > 0) =>
        /\ n_resets = frame \div n_reset
        /\ did_reset <=> (frame > 0 /\ frame % n_reset = 0)
        /\ did_reset =>
              /\ last_column(values) = ZeroPoint
              /\ <<a, b, c>> \in random_abc(F(default_min_val), F(default_max_val)).abc

C3_Witness == pc = "generate" /\ n_reset = 2 /\ frame = 4 /\ n_resets = 2 /\ did_reset

\* C4: with n_reset = 0 the loop's (a,b,c) are the ones it was started with
\* in every frame, and no reset ever happens.
C4_NoResetWhenZero ==
    (Running /\ n_reset = 0) => (<<a, b, c>> = abc0 /\ n_resets = 0 /\ ~did_reset)

C4_Witness == pc = "generate" /\ n_reset = 0 /\ frame >= 3 /\ n_iters >= 1

\* C5: with n_iters = 0 every frame yields an empty batch, the seed stays
\* (0,0) and the loop never fails.
C5_ZeroItersRunsOn ==
    (Running /\ n_iters = 0) =>
        (pc # "error" /\ batch = <<>> /\ (seed # None => seed = ZeroPoint))

\* C6: with n_iters >= 0, n_hist >= 0 and n_reset >= 0 the loop never
\* reaches an error state.
C6_NeverTerminal ==
    (Running /\ n_iters >= 0 /\ n_hist >= 0 /\ n_reset >= 0) => pc # "error"

\* C7: for n >= 0, hop_along_for_n returns without error exactly n points,
\* the i-th being hop_along_eq applied i times (counting from 1) to the seed,
\* (0,0) standing for an omitted seed, and leaves the seed array as it was.
C7_BatchIsIteration ==
    (call.fn = "hop_along_for_n" /\ ret.done /\ call.n >= 0) =>
        /\ ret.err = ""
        /\ Len(ret.arr) = call.n
        /\ \A i \in 1..call.n :
              ret.arr[i] = iterate(i, IF call.xy = None THEN ZeroPoint ELSE call.xy,
                                   call.a, call.b, call.c)
        /\ ret.xy_after = call.xy

C7_Witness ==
    /\ call.fn = "hop_along_for_n" /\ ret.done /\ call.n = 2
    /\ call.xy # None /\ ret.arr[1] # call.xy /\ ret.arr[2] # ret.arr[1]

\* C8: hop_along_eq returns (y - s*sqrt(|b*x - c|), a - x) with s = -1 for
\* x < 0 and s = +1 for x > 0 and for every x equal to zero.
C8_SignOfZeroPositive ==
    (call.fn = "hop_along_eq" /\ ret.done) =>
        LET x == val(call.xy[1])
            y == val(call.xy[2])
            s == IF x < 0 THEN -1 ELSE 1
        IN  /\ val(ret.pt[1]) = y - s * RoundSqrt(abs(val(call.b) * x - val(call.c)))
            /\ val(ret.pt[2]) = val(call.a) - x

\* C9: with n_iters < 0, a direct call of hop_along_for_n raises ValueError
\* and returns no array, and the first frame of plot_hop_along ends the loop
\* with that ValueError before a batch exists or anything is drawn.
C9_NegativeItersRejected ==
    /\ (call.fn = "hop_along_for_n" /\ ret.done /\ call.n < 0) =>
           (ret.err = "ValueError" /\ ret.arr = <<>>)
    /\ (Running /\ n_iters < 0 /\ frame >= 1) =>
           /\ pc = "error" /\ err = "ValueError" /\ frame = 1
           /\ batch = <<>> /\ drawn = <<>> /\ history = <<>>

C9_Witness == pc = "error" /\ err = "ValueError" /\ n_iters = -1 /\ frame = 1

\* C10: random_abc(min_val, max_val) with min_val > max_val raises an error
\* and returns no parameters.
C10_InvertedRangeRejected ==
    (call.fn = "random_abc" /\ ret.done /\ val(call.lo) > val(call.hi)) => ret.err # ""

\* Rationals <<num, den>> with den > 0.
rle(p, q) == p[1] * q[2] <= q[1] * p[2]

rlt(p, q) == p[1] * q[2] < q[1] * p[2]

req(p, q) == p[1] * q[2] = q[1] * p[2]

radd(p, q) == << p[1] * q[2] + q[1] * p[2], p[2] * q[2] >>

InRange(x, lo, hi) == val(lo) <= val(x) /\ val(x) <= val(hi)

\* The positions at which `drawn` holds all the scatter calls of the frame.
FrameDrawn == pc \in {"append", "pause", "clf"}

\* C11: for min_val <= max_val random_abc returns, without error, three
\* values of [min_val, max_val] (so (v,v,v) for min_val = max_val = v), and
\* once a reset has happened the loop's (a,b,c) lie in the default range.
C11_DrawsInRange ==
    /\ (call.fn = "random_abc" /\ ret.done /\ val(call.lo) <= val(call.hi)) =>
           /\ ret.err = ""
           /\ \A i \in 1..3 : InRange(ret.abc[i], call.lo, call.hi)
    /\ (Running /\ n_resets > 0) =>
           \A x \in {a, b, c} : InRange(x, F(default_min_val), F(default_max_val))

C11_Witness ==
    /\ call.fn = "random_abc" /\ ret.done /\ val(call.lo) < val(call.hi)
    /\ ret.abc[1] # ret.abc[2]

\* C12: for n_hist > 0 and alpha_init > 0, the opacities of the history
\* batches drawn in a frame increase strictly from the oldest to the newest,
\* and the oldest is drawn with at most alpha_init / n_hist.
C12_HistoryAlphaIncreasing ==
    (Running /\ n_hist > 0 /\ alpha_init[1] > 0 /\ FrameDrawn) =>
        /\ \A i, j \in 2..Len(drawn) :
              i < j => /\ drawn[i].gen.frame < drawn[j].gen.frame
                       /\ rlt(drawn[i].alpha, drawn[j].alpha)
        /\ Len(drawn) >= 2 =>
              rle(drawn[2].alpha, <<alpha_init[1], alpha_init[2] * n_hist>>)

C12_Witness ==
    pc = "append" /\ n_hist = 2 /\ alpha_init[1] > 0 /\ Len(drawn) = 3 /\ n_iters = 1

\* C13: with n_hist = 0 the history list stays empty and each frame makes
\* exactly one scatter call, that of the batch just generated.
C13_NoHistoryWhenZero ==
    (Running /\ n_hist = 0) =>
        /\ history = <<>>
        /\ Len(drawn) <= 1
        /\ pc \in {"pause", "clf"} =>
              /\ Len(drawn) = 1
              /\ drawn[1].x = values[1] /\ drawn[1].y = values[2]
              /\ drawn[1].gen.frame = frame

C13_Witness == n_hist = 0 /\ pc = "clf" /\ frame >= 3 /\ Len(drawn) = 1 /\ n_iters = 2

\* The steps of `order` a frame takes: the two history steps only with n_hist > 0.
FrameSteps(order) ==
    SelectSeq(order, LAMBDA e : positive_hist \/ e \notin {"render_history", "trim"})

C15_AlphaAtMostInit ==
    (Running /\ n_hist > 0 /\ alpha_init[1] >= 0) =>
        /\ \A i \in 1..Len(drawn) : rle(drawn[i].alpha, alpha_init)
        /\ pc = "append" =>
              /\ Len(drawn) = Len(history) + 1
              /\ \A i \in 0..(Len(history) - 1) :
                    /\ drawn[i + 2].x = history[i + 1][1]
                    /\ drawn[i + 2].y = history[i + 1][2]
                    /\ req(drawn[i + 2].alpha,
                           <<(i + 1) * alpha_init[1], n_hist * alpha_init[2]>>)

C15_Witness ==
    /\ pc = "append" /\ n_hist = 2 /\ Len(drawn) = 3 /\ alpha_init = default_alpha_init
    /\ req(drawn[3].alpha, alpha_init)

\* C16: for n_hist > 0, the batches drawn as history in frame F are, once
\* each, exactly the batches generated in the frames f with
\* f + 1 <= F <= f + n_hist.
C16_DrawnForNHistFrames ==
    (Running /\ n_hist > 0 /\ FrameDrawn) =>
        /\ drawn[1].gen.frame = frame
        /\ { drawn[i].gen.frame : i \in 2..Len(drawn) }
               = { f \in 1..(frame - 1) : frame <= f + n_hist }
        /\ \A i, j \in 2..Len(drawn) : drawn[i].gen.frame = drawn[j].gen.frame => i = j

C16_Witness ==
    /\ pc = "append" /\ n_hist = 2 /\ frame = 4 /\ did_reset
    /\ Len(drawn) = 3 /\ drawn[2].gen.frame = 2

\* C17: for n_hist > 0 and alpha_init > 0 (and n_iters >= 1, n_reset >= 0),
\* a batch drawn in a frame and in the frame before is drawn with an opacity
\* lower by alpha_init / n_hist than in the frame before.
C17_AlphaDecreasesEachUpdate ==
    (Running /\ n_hist > 0 /\ alpha_init[1] > 0 /\ n_iters >= 1 /\ n_reset >= 0
             /\ FrameDrawn) =>
        \A i \in 1..Len(drawn), j \in 1..Len(prev_alpha) :
            drawn[i].gen.frame = prev_alpha[j].frame =>
                req(radd(drawn[i].alpha, <<alpha_init[1], alpha_init[2] * n_hist>>),
                    prev_alpha[j].alpha)

\* C18: the reset step leaves the history list as it is, and in the frame
\* after a reset the newest history batch drawn is the one generated in the
\* frame before, under the previous parameters, next to the new batch
\* generated under the new ones.
C18_ResetKeepsHistory ==
    [][ /\ (pc = "count" /\ pc' = "generate") =>
               (history' = history /\ history_gen' = history_gen)
        /\ (pc = "draw_history" /\ pc' = "append" /\ did_reset) =>
               /\ Len(history) >= 1
               /\ Len(drawn') >= 2
               /\ drawn'[Len(drawn')].gen.frame = frame - 1
               /\ drawn'[Len(drawn')].x = history[Len(history)][1]
               /\ drawn'[Len(drawn')].y = history[Len(history)][2]
               /\ drawn'[1].gen = [frame |-> frame, abc |-> <<a, b, c>>] ]_vars

C18_Witness ==
    /\ pc = "append" /\ did_reset /\ Len(drawn) = 3
    /\ drawn[2].gen.abc # drawn[1].gen.abc /\ drawn[3].gen.abc # drawn[1].gen.abc

\* C19: for n_hist > 0, after the append-and-trim step of frame f the
\* history holds, oldest first and once each, the batches generated in the
\* frames max(1, f - n_hist + 1) .. f.
C19_HistoryIsLastBatches ==
    (Running /\ n_hist > 0 /\ pc \in {"pause", "clf", "count"}) =>
        LET lo == IF frame - n_hist + 1 < 1 THEN 1 ELSE frame - n_hist + 1
            r0 == frame - since_reset
        IN  /\ Len(history) = frame - lo + 1
            /\ Len(history_gen) = Len(history)
            /\ \A i \in 1..Len(history) :
                  /\ history_gen[i].frame = lo + i - 1
                  /\ lo + i - 1 > r0 =>
                        history[i] = np_swapaxes(SubSeq(trajectory,
                                         (lo + i - 2 - r0) * n_iters + 1,
                                         (lo + i - 1 - r0) * n_iters))
            /\ history[Len(history)] = np_swapaxes(batch)

C19_Witness ==
    pc = "pause" /\ n_hist = 2 /\ frame = 4 /\ Len(history) = 2 /\ n_iters = 2
    /\ history[1] # history[2]

\* C20: for n_iters >= 1, the batches of the m frames since the start or the
\* last reset, concatenated, are hop_along_for_n(a, b, c, m * n_iters) from
\* the seed (0,0).
C20_FramesConcatenate ==
    (Running /\ pc # "error" /\ n_iters >= 1) =>
        /\ Len(trajectory) = since_reset * n_iters
        /\ trajectory = hop_along_for_n(a, b, c, since_reset * n_iters, ZeroPoint).ret

C20_Witness ==
    pc = "scatter" /\ n_iters = 2 /\ since_reset = 2 /\ n_resets = 1 /\ n_hist = 1

====
